---- MODULE Spec2Model ----
(***************************************************************************)
(* ZetValidation: the schema node (ZetSchema.ts), the primitives and the   *)
(* structural combinators (primitives.ts).                                 *)
(*                                                                         *)
(* A validator closure is a record tree: op names the closure, base is the *)
(* captured this.validator, desc the captured this.description.  Error     *)
(* maps are sequences of [key, msg] in insertion order, as a JS object.    *)
(***************************************************************************)
EXTENDS Integers, Sequences, FiniteSets, TLC

VARIABLES base, node, caches, last, count, arr, obj, heap, ev, hook, inflight

vars == <<base, node, caches, last, count, arr, obj, heap, ev, hook, inflight>>

----------------------------------------------------------------------------
(* Bounds of the model *)

MaxDepth == 2
MaxCaches == 1
MaxLen == 3
MaxCalls == 2
MaxNodes == 3
MaxStages == 1
MaxReports == 2

(* Program constants *)

DefaultBatch == 4
BytesPerKB == 1024

----------------------------------------------------------------------------
(* JavaScript values *)

Undefined == [kind |-> "undefined"]
Str(s) == [kind |-> "string", s |-> s]
Num(n) == [kind |-> "number", n |-> n]
Arr(items) == [kind |-> "array", items |-> items]
Obj(props) == [kind |-> "object", props |-> props]

IsFile(v) == v.kind = "file"
IsString(v) == v.kind = "string"
IsArray(v) == v.kind = "array"
TypeofObject(v) == v.kind \in {"file", "array", "object"}

RECURSIVE PropOf(_, _)
PropOf(props, key) ==
  IF props = <<>> THEN Undefined
  ELSE IF Head(props)[1] = key THEN Head(props)[2]
  ELSE PropOf(Tail(props), key)

\* (value as any)[key]
Get(v, key) ==
  IF v.kind = "object" THEN PropOf(v.props, key)
  ELSE IF v.kind = "file" /\ key = "name" THEN Str(v.name)
  ELSE IF v.kind = "file" /\ key = "type" THEN Str(v.type)
  ELSE IF v.kind = "file" /\ key = "size" THEN Num(v.size)
  ELSE Undefined

RECURSIVE Join(_, _)
Join(strs, sep) ==
  IF strs = <<>> THEN ""
  ELSE IF Len(strs) = 1 THEN strs[1]
  ELSE strs[1] \o sep \o Join(Tail(strs), sep)

RECURSIVE JsonStringify(_)
RECURSIVE JsonItems(_)
RECURSIVE JsonProps(_)
\* JSON.stringify inside `${...}`: undefined prints "undefined", a File has no
\* enumerable own property and prints "{}"
JsonStringify(v) ==
  CASE v.kind = "undefined" -> "undefined"
    [] v.kind = "string" -> "\"" \o v.s \o "\""
    [] v.kind = "number" -> ToString(v.n)
    [] v.kind = "file" -> "{}"
    [] v.kind = "array" -> "[" \o Join(JsonItems(v.items), ",") \o "]"
    [] v.kind = "object" -> "{" \o Join(JsonProps(v.props), ",") \o "}"

JsonItems(items) ==
  IF items = <<>> THEN <<>>
  ELSE <<IF Head(items).kind = "undefined" THEN "null" ELSE JsonStringify(Head(items))>> \o JsonItems(Tail(items))

JsonProps(props) ==
  IF props = <<>> THEN <<>>
  ELSE IF Head(props)[2].kind = "undefined" THEN JsonProps(Tail(props))
  ELSE <<"\"" \o Head(props)[1] \o "\":" \o JsonStringify(Head(props)[2])>> \o JsonProps(Tail(props))

----------------------------------------------------------------------------
(* ValidationResult and error maps *)

Ok(data) == [success |-> TRUE, data |-> data]
Fail(errors) == [success |-> FALSE, errors |-> errors]

Entry(key, msg) == [key |-> key, msg |-> msg]
Keys(errors) == {errors[i].key : i \in 1..Len(errors)}
Entries(errors) == {errors[i] : i \in 1..Len(errors)}

\* errors[key] = msg on a JS object: an existing key keeps its place
SetKey(errors, key, msg) ==
  IF key \in Keys(errors)
  THEN [i \in 1..Len(errors) |-> IF errors[i].key = key THEN Entry(key, msg) ELSE errors[i]]
  ELSE Append(errors, Entry(key, msg))

RECURSIVE Assign(_, _)
\* Object.assign(errors, more)
Assign(errors, more) ==
  IF more = <<>> THEN errors
  ELSE Assign(SetKey(errors, Head(more).key, Head(more).msg), Tail(more))

----------------------------------------------------------------------------
(* Parameters callers pass *)

\* an optional message argument; `message || default` takes the default for
\* an absent and for an empty message
NoMsg == [given |-> FALSE, text |-> ""]
Msg(text) == [given |-> TRUE, text |-> text]
OrDefault(message, default) == IF message.given /\ message.text # "" THEN message.text ELSE default

IsImage(type) == type \in {"image/jpeg", "image/png"}
IsMedia(type) == type \in {"video/mp4", "audio/mpeg"}

\* regex.test(name) for the patterns of the model
RegexTest(regex, name) ==
  CASE regex = "\\.png$" -> name \in {"a.png", "b.png"}
    [] OTHER -> FALSE

\* the external check functions callers supply (server, AI)
CheckFn(check, f) ==
  CASE check = "okFlag" -> f.ok
    [] OTHER -> TRUE

\* metadata predicates callers supply
MetadataCheck(check, metadata) ==
  CASE check = "wide" -> metadata.width >= 100
    [] OTHER -> TRUE

\* query mutation functions callers supply
MutationFn(fn, data) ==
  CASE fn = "okFlag" -> IF IsFile(data) THEN data.ok ELSE data # Str("bad")
    [] OTHER -> TRUE

\* conditions of when(): parent.kind === "premium"
Condition(cond, parent) ==
  CASE cond = "isPremium" -> Get(parent, "kind") = Str("premium")
    [] OTHER -> FALSE

\* transform functions: (v) => v + "!"
ApplyTransform(fn, data) ==
  CASE fn = "bang" /\ data.kind = "string" -> Str(data.s \o "!")
    [] fn = "bang" /\ data.kind = "undefined" -> Str("undefined!")
    [] fn = "bang" /\ data.kind = "number" -> Str(ToString(data.n) \o "!")
    [] fn = "bang" /\ data.kind = "file" -> Str("[object File]!")
    [] OTHER -> Str("[object]!")

\* form rules: (d) => d.name === d.age ? true : "Fields must match"
\* "" stands for the rule returning true
FormRuleFn(rule, data) ==
  CASE rule = "match" -> IF Get(data, "name") = Get(data, "age") THEN "" ELSE "Fields must match"
    [] OTHER -> ""

----------------------------------------------------------------------------
(* ZetSchema: the node and its derivation methods *)

NoFn == [op |-> "absent"]
NoTransform == "none"
NoCache == 0

\* the constructor: stages["default"] = validator
ZetSchema(validator, description, transformFn, cacheMap) ==
  [validator |-> validator, description |-> description, transformFn |-> transformFn, cacheMap |-> cacheMap, stages |-> [default |-> validator, draft |-> NoFn]]

string == ZetSchema([op |-> "string"], "value", NoTransform, NoCache)
file == ZetSchema([op |-> "file"], "value", NoTransform, NoCache)
array(itemSchema, batchConcurrency) == ZetSchema([op |-> "array", itemSchema |-> itemSchema, batchConcurrency |-> batchConcurrency], "value", NoTransform, NoCache)
object(shape) == ZetSchema([op |-> "object", shape |-> shape], "value", NoTransform, NoCache)

describe(this, description) == ZetSchema(this.validator, description, this.transformFn, this.cacheMap)
setTransform(this, fn) == ZetSchema(this.validator, this.description, fn, this.cacheMap)
optional(this) == ZetSchema([op |-> "optional", base |-> this.validator], this.description, this.transformFn, this.cacheMap)
extend(this) == ZetSchema(this.validator, this.description, this.transformFn, this.cacheMap)
setCache(this, fresh) == ZetSchema(this.validator, this.description, this.transformFn, fresh)

\* a refinement whose schema has no cache
RefinedWithoutCache(this, closure) == ZetSchema(closure, this.description, this.transformFn, NoCache)

\* a refinement returns a node around a closure that captures this.validator
\* and this.description; description, transform and cache are handed on
Refined(this, closure) == ZetSchema(closure, this.description, this.transformFn, this.cacheMap)

type(this, allowedTypes, message) ==
  Refined(this, [op |-> "type", base |-> this.validator, desc |-> this.description, allowedTypes |-> allowedTypes, message |-> message])
maxSizeMB(this, maxMB, message) ==
  Refined(this, [op |-> "maxSizeMB", base |-> this.validator, desc |-> this.description, maxMB |-> maxMB, message |-> message])
dimensions(this, dims, message) ==
  Refined(this, [op |-> "dimensions", base |-> this.validator, desc |-> this.description, dims |-> dims, message |-> message])
maxDuration(this, seconds, message) ==
  Refined(this, [op |-> "maxDuration", base |-> this.validator, desc |-> this.description, seconds |-> seconds, message |-> message])
namePattern(this, regex, message) ==
  Refined(this, [op |-> "namePattern", base |-> this.validator, desc |-> this.description, regex |-> regex, message |-> message])
compress(this, cMaxMB, message) ==
  Refined(this, [op |-> "compress", base |-> this.validator, desc |-> this.description, cMaxMB |-> cMaxMB, message |-> message])
serverValidate(this, check, message) ==
  Refined(this, [op |-> "serverValidate", base |-> this.validator, desc |-> this.description, check |-> check, message |-> message])
metadata(this, mcheck, message) ==
  Refined(this, [op |-> "metadata", base |-> this.validator, desc |-> this.description, mcheck |-> mcheck, message |-> message])
query(this, mutationFn, errorMessage) ==
  Refined(this, [op |-> "query", base |-> this.validator, desc |-> this.description, mutationFn |-> mutationFn, errorMessage |-> errorMessage])
aiValidate(this, check, message) ==
  Refined(this, [op |-> "aiValidate", base |-> this.validator, desc |-> this.description, check |-> check, message |-> message])

MimeMap(ext) ==
  CASE ext = "jpg" -> "image/jpeg"
    [] ext = "png" -> "image/png"
    [] ext = "mp4" -> "video/mp4"
    [] ext = "mp3" -> "audio/mpeg"
    [] OTHER -> "application/" \o ext

ToLowerCase(ext) ==
  CASE ext = "PNG" -> "png"
    [] ext = "JPG" -> "jpg"
    [] OTHER -> ext

extension(this, extensions, message) ==
  type(this, [i \in 1..Len(extensions) |-> MimeMap(ToLowerCase(extensions[i]))], Msg(OrDefault(message, this.description \o " must have one of these extensions: " \o Join(extensions, ", "))))

\* when(condition, then, otherwise): the closure captures this; the branch
\* builders are applied at each evaluation
when(this, condition, then, otherwise) ==
  ZetSchema([op |-> "when", condition |-> condition, then |-> then, otherwise |-> otherwise, self |-> this], this.description, this.transformFn, this.cacheMap)

\* the builders (schema) => schema passed to when() and stage(): one
\* refinement applied to the schema
Build(fn, schema) ==
  CASE fn.m = "maxSizeMB" -> maxSizeMB(schema, fn.maxMB, fn.message)
    [] fn.m = "type" -> type(schema, fn.allowedTypes, fn.message)
    [] OTHER -> extend(schema)

\* stage(name, fn): this.stages[name] = fn(this).validator; return this
stage(this, name, fn) == [this EXCEPT !.stages[name] = Build(fn, this).validator]

----------------------------------------------------------------------------
(* The validator closures.  An evaluation yields [res, ran]: the result and *)
(* the checks that were performed, in order.                                *)

Megabytes(mb) == mb * BytesPerKB * BytesPerKB

StringValidator(value) ==
  IF ~IsString(value) THEN Fail(<<Entry("value", "Expected a string")>>) ELSE Ok(value)

FileValidator(value) ==
  IF ~IsFile(value) THEN Fail(<<Entry("value", "Expected a file")>>) ELSE Ok(value)

\* the refinement's own error: { [this.description]: message || default }
RefinementError(fn, default) == Fail(<<Entry(fn.desc, OrDefault(fn.message, default))>>)

TypeCheck(fn, result) ==
  IF IsFile(result.data) /\ \A i \in 1..Len(fn.allowedTypes) : fn.allowedTypes[i] # result.data.type
  THEN RefinementError(fn, fn.desc \o " must be one of: " \o Join(fn.allowedTypes, ", "))
  ELSE result

MaxSizeExceededInclusive(size, maxMB) == size >= Megabytes(maxMB)

MaxSizeExceeded(size, maxMB) == size > Megabytes(maxMB)

MaxSizeCheck(fn, result) ==
  IF IsFile(result.data) /\ MaxSizeExceeded(result.data.size, fn.maxMB)
  THEN RefinementError(fn, fn.desc \o " must not exceed " \o ToString(fn.maxMB) \o "MB")
  ELSE result

DimensionErrors(dims, width, height) ==
  (IF dims.minWidth # 0 /\ width < dims.minWidth THEN <<"width must be at least " \o ToString(dims.minWidth) \o "px">> ELSE <<>>)
  \o (IF dims.maxWidth # 0 /\ width > dims.maxWidth THEN <<"width must not exceed " \o ToString(dims.maxWidth) \o "px">> ELSE <<>>)
  \o (IF dims.minHeight # 0 /\ height < dims.minHeight THEN <<"height must be at least " \o ToString(dims.minHeight) \o "px">> ELSE <<>>)
  \o (IF dims.maxHeight # 0 /\ height > dims.maxHeight THEN <<"height must not exceed " \o ToString(dims.maxHeight) \o "px">> ELSE <<>>)

DimensionsCheck(fn, result) ==
  IF ~IsFile(result.data) \/ ~IsImage(result.data.type) THEN result
  ELSE LET errors == DimensionErrors(fn.dims, result.data.width, result.data.height)
       IN IF Len(errors) > 0
          THEN RefinementError(fn, fn.desc \o " has invalid dimensions: " \o Join(errors, ", "))
          ELSE result

MaxDurationCheck(fn, result) ==
  IF ~IsFile(result.data) \/ ~IsMedia(result.data.type) THEN result
  ELSE IF result.data.duration > fn.seconds
       THEN RefinementError(fn, fn.desc \o " must not exceed " \o ToString(fn.seconds) \o " seconds")
       ELSE result

NamePatternCheck(fn, result) ==
  IF IsFile(result.data) /\ ~RegexTest(fn.regex, result.data.name)
  THEN RefinementError(fn, fn.desc \o " name does not match the required pattern")
  ELSE result

\* the recompressed file has the size the canvas produced (csize)
CompressCheck(fn, result) ==
  IF ~IsFile(result.data) \/ ~IsImage(result.data.type) THEN result
  ELSE IF result.data.size <= Megabytes(fn.cMaxMB) THEN result
  ELSE IF result.data.csize > Megabytes(fn.cMaxMB)
       THEN RefinementError(fn, fn.desc \o " could not be compressed below " \o ToString(fn.cMaxMB) \o "MB")
       ELSE Ok([result.data EXCEPT !.size = result.data.csize])

ServerValidateCheck(fn, result) ==
  IF ~IsFile(result.data) THEN result
  ELSE IF ~CheckFn(fn.check, result.data) THEN RefinementError(fn, "Server rejected the file")
  ELSE result

MetadataCheckOf(fn, result) ==
  IF ~IsFile(result.data) \/ ~IsImage(result.data.type) THEN result
  ELSE IF ~MetadataCheck(fn.mcheck, [width |-> result.data.width, height |-> result.data.height])
       THEN RefinementError(fn, fn.desc \o " metadata is invalid")
       ELSE result

QueryCheck(fn, result) ==
  IF ~MutationFn(fn.mutationFn, result.data) THEN Fail(<<Entry(fn.desc, fn.errorMessage)>>)
  ELSE result

AiValidateCheck(fn, result) ==
  IF ~IsFile(result.data) THEN result
  ELSE IF ~CheckFn(fn.check, result.data) THEN RefinementError(fn, "AI rejected the file")
  ELSE result

RefinementOps == {"type", "maxSizeMB", "dimensions", "maxDuration", "namePattern", "compress", "serverValidate", "metadata", "query", "aiValidate"}

\* whether the refinement's check is performed on this success value (its
\* applicability test)
Applies(fn, data) ==
  CASE fn.op \in {"type", "maxSizeMB", "namePattern", "serverValidate", "aiValidate"} -> IsFile(data)
    [] fn.op \in {"dimensions", "metadata"} -> IsFile(data) /\ IsImage(data.type)
    [] fn.op = "compress" -> IsFile(data) /\ IsImage(data.type) /\ data.size > Megabytes(fn.cMaxMB)
    [] fn.op = "maxDuration" -> IsFile(data) /\ IsMedia(data.type)
    [] OTHER -> TRUE

\* whether the check waits for an external collaborator on this value
External(fn, data) ==
  fn.op \in {"dimensions", "maxDuration", "compress", "serverValidate", "metadata", "query", "aiValidate"} /\ Applies(fn, data)

\* the part of a refinement closure after `if (!result.success) return result`
RefinementCheck(fn, result) ==
  CASE fn.op = "type" -> TypeCheck(fn, result)
    [] fn.op = "maxSizeMB" -> MaxSizeCheck(fn, result)
    [] fn.op = "dimensions" -> DimensionsCheck(fn, result)
    [] fn.op = "maxDuration" -> MaxDurationCheck(fn, result)
    [] fn.op = "namePattern" -> NamePatternCheck(fn, result)
    [] fn.op = "compress" -> CompressCheck(fn, result)
    [] fn.op = "serverValidate" -> ServerValidateCheck(fn, result)
    [] fn.op = "metadata" -> MetadataCheckOf(fn, result)
    [] fn.op = "query" -> QueryCheck(fn, result)
    [] fn.op = "aiValidate" -> AiValidateCheck(fn, result)

\* a refinement that performs its check before looking at the base's result
RefinementChecksFirst(fn, r) ==
  IF ~r.res.success THEN [res |-> r.res, ran |-> Append(r.ran, fn.op)]
  ELSE [res |-> RefinementCheck(fn, r.res), ran |-> IF Applies(fn, r.res.data) THEN Append(r.ran, fn.op) ELSE r.ran]

\* a refinement closure, given the evaluation r of its base
Refinement(fn, r) ==
  IF ~r.res.success THEN r
  ELSE [res |-> RefinementCheck(fn, r.res), ran |-> IF Applies(fn, r.res.data) THEN Append(r.ran, fn.op) ELSE r.ran]

\* the parent a refinement closure hands to this.validator: only
\* serverValidate passes it on
ParentForBase(fn, parent) == IF fn.op = "serverValidate" THEN parent ELSE Undefined

\* parent ?? {}
ParentOrEmpty(parent) == IF parent = Undefined THEN Obj(<<>>) ELSE parent

Branch(fn, parent) == IF Condition(fn.condition, ParentOrEmpty(parent)) THEN "then" ELSE "otherwise"

\* { ...res, data: res.success && transformFn ? transformFn(res.data) : res.data }
Finalize(this, res) ==
  IF res.success
  THEN [success |-> TRUE, data |-> IF this.transformFn # NoTransform THEN ApplyTransform(this.transformFn, res.data) ELSE res.data]
  ELSE [success |-> FALSE, errors |-> res.errors, data |-> Undefined]

\* this.stages[stage] ? this.stages[stage] : this.validator
StageFn(this, stageName) ==
  IF stageName \in DOMAIN this.stages /\ this.stages[stageName] # NoFn THEN this.stages[stageName] ELSE this.validator

\* options.batchConcurrency || 4
Concurrency(batchConcurrency) == IF batchConcurrency = 0 THEN DefaultBatch ELSE batchConcurrency

RECURSIVE PrefixAssign(_, _, _)
\* Object.entries(itemResult.errors).forEach(([key, msg]) => errors[`${i + index}.${key}`] = msg)
PrefixAssign(errors, idx, more) ==
  IF more = <<>> THEN errors
  ELSE PrefixAssign(SetKey(errors, ToString(idx) \o "." \o Head(more).key, Head(more).msg), idx, Tail(more))

\* a callback that prefixes with the index inside the batch's slice
ArrayAbsorbOneBased(acc, idx, itemResult) ==
  IF ~itemResult.success
  THEN [acc EXCEPT !.errors = PrefixAssign(acc.errors, idx + 1, itemResult.errors)]
  ELSE [acc EXCEPT !.result = Append(acc.result, itemResult.data)]

\* the callback of array() for the element at (0-based) index idx
ArrayAbsorb(acc, idx, itemResult) ==
  IF ~itemResult.success
  THEN [acc EXCEPT !.errors = PrefixAssign(acc.errors, idx, itemResult.errors)]
  ELSE [acc EXCEPT !.result = Append(acc.result, itemResult.data)]

ArrayReturn(acc) ==
  IF Len(acc.errors) > 0 THEN Fail(acc.errors) ELSE Ok(Arr(acc.result))

\* result[key] = data
SetProp(props, key, data) ==
  IF \E i \in 1..Len(props) : props[i][1] = key
  THEN [i \in 1..Len(props) |-> IF props[i][1] = key THEN <<key, data>> ELSE props[i]]
  ELSE Append(props, <<key, data>>)

\* the callback of object() for one field
ObjectAbsorb(acc, key, fieldResult) ==
  IF ~fieldResult.success
  THEN [acc EXCEPT !.errors = Assign(acc.errors, fieldResult.errors)]
  ELSE [acc EXCEPT !.result = SetProp(acc.result, key, fieldResult.data)]

\* a rule that is called whether or not a field failed
RuleRunsDespiteErrors(acc, rule) == rule # "none"

\* whether the cross-field rule is called once the fields are done
RuleRuns(acc, rule) == Len(acc.errors) = 0 /\ rule # "none"

\* lines 157-160 of object(): the rule's message becomes errors["form"]
ObjectRule(acc, rule) ==
  IF RuleRuns(acc, rule) /\ FormRuleFn(rule, Obj(acc.result)) # ""
  THEN [acc EXCEPT !.errors = SetKey(acc.errors, "form", FormRuleFn(rule, Obj(acc.result)))]
  ELSE acc

ObjectReturn(acc) ==
  IF Len(acc.errors) > 0 THEN Fail(acc.errors) ELSE Ok(Obj(acc.result))

RECURSIVE Validate(_, _, _)
RECURSIVE SafeParseMiss(_, _, _, _)
RECURSIVE ArrayInOrder(_, _, _, _)
RECURSIVE ObjectInOrder(_, _, _, _)

\* the elements' callbacks run in index order (elements that do not wait
\* for an external collaborator complete first-in first-out)
ArrayInOrder(itemSchema, items, idx, acc) ==
  IF idx >= Len(items) THEN acc
  ELSE LET r == SafeParseMiss(itemSchema, items[idx + 1], Undefined, "default")
       IN ArrayInOrder(itemSchema, items, idx + 1, [ArrayAbsorb(acc, idx, r.res) EXCEPT !.ran = acc.ran \o r.ran])

ObjectInOrder(shape, value, k, acc) ==
  IF k > Len(shape) THEN acc
  ELSE LET r == SafeParseMiss(shape[k][2], Get(value, shape[k][1]), value, "default")
       IN ObjectInOrder(shape, value, k + 1, [ObjectAbsorb(acc, shape[k][1], r.res) EXCEPT !.ran = acc.ran \o r.ran])

\* one call of a validator closure
Validate(fn, value, parent) ==
  CASE fn.op = "string" -> [res |-> StringValidator(value), ran |-> <<>>]
    [] fn.op = "file" -> [res |-> FileValidator(value), ran |-> <<>>]
    [] fn.op = "optional" ->
         IF value = Undefined THEN [res |-> Ok(Undefined), ran |-> <<>>]
         ELSE Validate(fn.base, value, Undefined)
    [] fn.op = "when" ->
         LET branch == Branch(fn, parent)
             chosen == Build(IF branch = "then" THEN fn.then ELSE fn.otherwise, fn.self)
             r == Validate(chosen.validator, value, parent)
         IN [res |-> r.res, ran |-> <<branch>> \o r.ran]
    [] fn.op = "array" ->
         IF ~IsArray(value) THEN [res |-> Fail(<<Entry("value", "Expected an array")>>), ran |-> <<>>]
         ELSE LET acc == ArrayInOrder(fn.itemSchema, value.items, 0, [result |-> <<>>, errors |-> <<>>, ran |-> <<>>])
              IN [res |-> ArrayReturn(acc), ran |-> acc.ran]
    [] fn.op = "object" ->
         IF ~TypeofObject(value) THEN [res |-> Fail(<<Entry("value", "Expected an object")>>), ran |-> <<>>]
         ELSE LET acc == ObjectInOrder(fn.shape, value, 1, [result |-> <<>>, errors |-> <<>>, ran |-> <<>>])
              IN [res |-> ObjectReturn(ObjectRule(acc, obj.formRule)), ran |-> acc.ran]
    [] fn.op \in RefinementOps ->
         Refinement(fn, Validate(fn.base, value, ParentForBase(fn, parent)))

\* safeParse past the cache lookup: run the stage's validator and finalize
SafeParseMiss(this, value, parent, stageName) ==
  LET r == Validate(StageFn(this, stageName), value, parent)
  IN [res |-> Finalize(this, r.res), ran |-> r.ran]

---------------------------------------------------------------------------------------------------------------------------------------------------
(* Inputs *)

Png1MB == [kind |-> "file", type |-> "image/png", size |-> Megabytes(1), name |-> "a.png", width |-> 200, height |-> 200, duration |-> 0, csize |-> Megabytes(1), ok |-> TRUE]
Png1MBPlus == [Png1MB EXCEPT !.size = Megabytes(1) + 1, !.name = "b.png", !.width = 50, !.ok = FALSE]
Pdf5MB == [kind |-> "file", type |-> "application/pdf", size |-> Megabytes(5), name |-> "c.pdf", width |-> 0, height |-> 0, duration |-> 0, csize |-> Megabytes(5), ok |-> TRUE]
Mp4Big == [kind |-> "file", type |-> "video/mp4", size |-> Megabytes(5) + 1, name |-> "d.mp4", width |-> 0, height |-> 0, duration |-> 90, csize |-> Megabytes(5) + 1, ok |-> FALSE]

Candidates == {Str("a"), Num(123), Png1MB, Png1MBPlus}
ChainCandidates == Candidates \cup {Pdf5MB, Mp4Big, Arr(<<Str("a")>>), Obj(<<<<"name", Str("a")>>, <<"age", Str("a")>>>>)}

Premium == Obj(<<<<"kind", Str("premium")>>>>)
Basic == Obj(<<<<"kind", Str("basic")>>>>)
Parents == {Undefined, Premium, Basic}

StageNames == {"default", "draft"}
Messages == {NoMsg, Msg("custom")}

ThenBuilder == [m |-> "maxSizeMB", maxMB |-> 1, message |-> Msg("premium: too large")]
OtherwiseBuilder == [m |-> "type", allowedTypes |-> <<"application/pdf">>, message |-> Msg("basic: pdf only")]

----------------------------------------------------------------------------
(* The harness: a schema under construction (node), the schema it was      *)
(* derived from (base), the Map objects created by setCache (caches), the  *)
(* last safeParse call with its outcome (last) and the number of times the *)
(* schema's validator has been invoked (count).  Schemas are built first   *)
(* and evaluated afterwards.                                               *)

NoCall == [n |-> 0]
Idle == [pc |-> "idle"]

\* the parts of the state a scenario does not use stay empty
Unused ==
  /\ heap = <<>>
  /\ ev = <<>>
  /\ hook = <<>>
  /\ inflight = <<>>

RECURSIVE Depth(_)
\* the number of closures wrapped around the primitive validator
Depth(fn) ==
  CASE fn.op \in RefinementOps \cup {"optional"} -> 1 + Depth(fn.base)
    [] fn.op = "when" -> 1 + Depth(fn.self.validator)
    [] OTHER -> 0

Building == last = NoCall
CanWrap == Building /\ Depth(node.validator) < MaxDepth

\* node := a schema derived from node; the receiver stays reachable as base
Derive(derived) ==
  /\ Building
  /\ base' = node
  /\ node' = derived
  /\ UNCHANGED <<caches, last, count, arr, obj, heap, ev, hook, inflight>>

Describe == \E d \in {"avatar"} : node.description # d /\ Derive(describe(node, d))

SetTransform == \E fn \in {"bang"} : node.transformFn # fn /\ Derive(setTransform(node, fn))

\* setCache(): new Map()
SetCache ==
  /\ Building
  /\ Len(caches) < MaxCaches
  /\ base' = node
  /\ node' = setCache(node, Len(caches) + 1)
  /\ caches' = Append(caches, <<>>)
  /\ UNCHANGED <<last, count, arr, obj, heap, ev, hook, inflight>>

When == CanWrap /\ Derive(when(node, "isPremium", ThenBuilder, OtherwiseBuilder))

\* the cache key: `${stage}:${JSON.stringify(value)}`
CacheKey(stageName, value) == stageName \o ":" \o JsonStringify(value)

\* a lookup that never finds the key
CacheHitNever(this, key) == FALSE

\* this.cacheMap?.has(key)
CacheHit(this, key) == this.cacheMap # NoCache /\ key \in DOMAIN caches[this.cacheMap]

\* safeParse: [res, ran, hit], the Outcome returned, the checks performed
\* and whether the cache answered
SafeParseCall(this, value, parent, stageName) ==
  IF CacheHit(this, CacheKey(stageName, value))
  THEN [res |-> caches[this.cacheMap][CacheKey(stageName, value)], ran |-> <<>>, hit |-> TRUE]
  ELSE LET r == SafeParseMiss(this, value, parent, stageName)
       IN [res |-> r.res, ran |-> r.ran, hit |-> FALSE]

\* if (this.cacheMap) this.cacheMap.set(key, finalRes)
CachesAfter(this, key, call) ==
  IF this.cacheMap # NoCache /\ ~call.hit
  THEN [caches EXCEPT ![this.cacheMap] = (key :> call.res) @@ @]
  ELSE caches

\* whether a call repeats the last one: same stage and candidate
Repeats(value, stageName) ==
  last # NoCall /\ last.value = value /\ last.stage = stageName

\* the candidates a caller passes: one candidate is validated again and again
NextCandidates(candidates) == IF last = NoCall THEN candidates ELSE {last.value} \cap candidates

\* a caller awaits node.safeParse(value, parent, stage)
SafeParseOf(candidates, parents, stageNames) ==
  \E value \in NextCandidates(candidates), parent \in parents, stageName \in stageNames :
    LET call == SafeParseCall(node, value, parent, stageName)
        rep == Repeats(value, stageName)
    IN /\ last.n < MaxCalls
       /\ last' = [n |-> last.n + 1, value |-> value, parent |-> parent, stage |-> stageName,
                   out |-> call.res, ran |-> call.ran, hit |-> call.hit, repeat |-> rep,
                   first |-> IF rep THEN last.out ELSE call.res]
       /\ caches' = CachesAfter(node, CacheKey(stageName, value), call)
       /\ count' = count + (IF call.hit THEN 0 ELSE 1)
       /\ UNCHANGED <<base, node, arr, obj, heap, ev, hook, inflight>>

SafeParse == SafeParseOf(Candidates, Parents, StageNames)

Init ==
  /\ node \in {string, file}
  /\ base = node
  /\ caches = <<>>
  /\ last = NoCall
  /\ count = 0
  /\ arr = Idle
  /\ obj = [pc |-> "idle", formRule |-> "none"]
  /\ Unused

Next ==
  \/ Describe
  \/ SetTransform
  \/ SetCache
  \/ When
  \/ SafeParse

Spec == Init /\ [][Next]_vars

----------------------------------------------------------------------------
(* Refinement chains: a base-type schema, refinements and describe() laid  *)
(* over it, then evaluated as safeParse(value).                            *)

NameAgeShape == <<<<"name", string>>, <<"age", string>>>>

Type == CanWrap /\ \E m \in Messages : Derive(type(node, <<"image/jpeg", "image/png">>, m))

MaxSizeMB == CanWrap /\ \E p \in {<<1, NoMsg>>, <<5, NoMsg>>, <<5, Msg("custom")>>} : Derive(maxSizeMB(node, p[1], p[2]))

Dimensions == CanWrap /\ Derive(dimensions(node, [minWidth |-> 100, maxWidth |-> 0, minHeight |-> 100, maxHeight |-> 0], NoMsg))

MaxDuration == CanWrap /\ Derive(maxDuration(node, 60, NoMsg))

NamePattern == CanWrap /\ Derive(namePattern(node, "\\.png$", NoMsg))

Extension == CanWrap /\ Derive(extension(node, <<"PNG", "pdf">>, NoMsg))

Compress == CanWrap /\ Derive(compress(node, 1, NoMsg))

ServerValidate == CanWrap /\ Derive(serverValidate(node, "okFlag", NoMsg))

Metadata == CanWrap /\ Derive(metadata(node, "wide", NoMsg))

Query == CanWrap /\ Derive(query(node, "okFlag", "Rejected"))

AiValidate == CanWrap /\ Derive(aiValidate(node, "okFlag", Msg("custom")))

\* one safeParse(value) on the finished chain: no parent, the default stage
Evaluate == Building /\ SafeParseOf(ChainCandidates, {Undefined}, {"default"})

InitChain ==
  /\ node \in {string, file, array(string, 0), object(NameAgeShape)}
  /\ base = node
  /\ caches = <<>>
  /\ last = NoCall
  /\ count = 0
  /\ arr = Idle
  /\ obj = [pc |-> "idle", formRule |-> "none"]
  /\ Unused

NextChain ==
  \/ Describe
  \/ Type
  \/ MaxSizeMB
  \/ Dimensions
  \/ MaxDuration
  \/ NamePattern
  \/ Extension
  \/ Compress
  \/ ServerValidate
  \/ Metadata
  \/ Query
  \/ AiValidate
  \/ Evaluate

SpecChain == InitChain /\ [][NextChain]_vars

----------------------------------------------------------------------------
(* Claims about the cache and conditional dispatch (Spec) *)

Called == last # NoCall
Caching == node.cacheMap # NoCache

\* C1: on a schema with a cache, a safeParse that repeats the previous call's
\* stage and candidate returns the previous call's Outcome, is answered by
\* the cache, performs no check, and leaves the number of validator
\* invocations below the number of calls (1 after two calls).
C1_CachedRepeatIsIdentical ==
  (Called /\ last.repeat /\ Caching) =>
    /\ last.out = last.first
    /\ last.hit
    /\ last.ran = <<>>
    /\ count < last.n
    /\ (last.n = 2 => count = 1)

C1_Witness ==
  /\ Called /\ last.repeat /\ Caching
  /\ last.n = 2 /\ count = 1
  /\ ~last.out.success
  /\ node.transformFn # NoTransform

C1_WitnessSuccess ==
  /\ Called /\ last.repeat /\ Caching
  /\ last.n = 2 /\ count = 1
  /\ last.out.success
  /\ node.transformFn # NoTransform

\* C6: every evaluation of a when() schema, cached or not and whatever was
\* evaluated before, follows the branch its predicate selects for the call's
\* parent context (an absent parent being the empty context): the branch the
\* schema takes is the selected one, and the Outcome is the one the selected
\* branch gives for the candidate.
C6_BranchFollowsParent ==
  (Called /\ node.validator.op = "when") =>
    /\ last.ran # <<>> => last.ran[1] = Branch(node.validator, last.parent)
    /\ last.out = SafeParseMiss(node, last.value, last.parent, last.stage).res

\* the same without a cache: holds
C6_UncachedBranchFollowsParent == Caching \/ C6_BranchFollowsParent

C6_Witness ==
  /\ Called /\ node.validator.op = "when" /\ ~Caching
  /\ last.parent = Premium
  /\ ~last.out.success
  /\ last.out.errors = <<Entry("value", "premium: too large")>>

----------------------------------------------------------------------------
(* Claims about refinement chains (SpecChain) *)

BaseTypeOps == {"string", "file", "array", "object"}
Refining == node.validator.op \in RefinementOps

\* the candidate is not of the category the base type tests for
WrongCategory(op, value) ==
  CASE op = "string" -> value.kind # "string"
    [] op = "file" -> value.kind # "file"
    [] op = "array" -> value.kind # "array"
    [] op = "object" -> value.kind \notin {"object", "array", "file"}

\* C2: when the schema a refinement was applied to fails on the candidate,
\* the refined schema fails with the same error map and performs no check
\* beyond those the base performed.
C2_FailedBaseShortCircuits ==
  (Called /\ Refining /\ node.validator.base = base.validator /\ ~SafeParseMiss(base, last.value, last.parent, last.stage).res.success) =>
    /\ ~last.out.success
    /\ last.out.errors = SafeParseMiss(base, last.value, last.parent, last.stage).res.errors
    /\ last.ran = SafeParseMiss(base, last.value, last.parent, last.stage).ran

\* a refinement over a refinement whose own check failed: the outer check
\* (an external one) did not run
C2_Witness ==
  /\ Called /\ Refining /\ node.validator.base = base.validator
  /\ node.validator.op \in {"serverValidate", "query", "aiValidate"}
  /\ base.validator.op \in RefinementOps
  /\ IsFile(last.value)
  /\ ~last.out.success
  /\ last.ran = <<base.validator.op>>

\* C7: a base-type schema, also after describe(), fails on a candidate of
\* the wrong category with exactly one error entry, keyed by the schema's
\* description.
C7_WrongCategoryKeyedByDescription ==
  (Called /\ node.validator.op \in BaseTypeOps /\ WrongCategory(node.validator.op, last.value)) =>
    /\ ~last.out.success
    /\ Len(last.out.errors) = 1
    /\ last.out.errors[1].key = node.description

\* the part of C7 the code keeps: one entry, under the key "value"
C7_WrongCategoryKeyedValue ==
  (Called /\ node.validator.op \in BaseTypeOps /\ WrongCategory(node.validator.op, last.value)) =>
    /\ ~last.out.success
    /\ Len(last.out.errors) = 1
    /\ last.out.errors[1].key = "value"

\* whether the outermost refinement's own check is what fails on the last
\* candidate
OwnCheckFails ==
  /\ Called /\ Refining
  /\ Validate(node.validator.base, last.value, ParentForBase(node.validator, last.parent)).res.success
  /\ ~last.out.success

\* C8: when a refinement's own check fails, the error map has exactly one
\* entry, keyed by the description of the schema that was evaluated (also
\* when describe() came after the refinement), holding the caller's message
\* when one was given.
C8_OwnFailureKeyedByDescription ==
  OwnCheckFails =>
    /\ Len(last.out.errors) = 1
    /\ last.out.errors[1].key = node.description
    /\ (node.validator.op # "query" /\ node.validator.message.given => last.out.errors[1].msg = node.validator.message.text)
    /\ (node.validator.op = "query" => last.out.errors[1].msg = node.validator.errorMessage)

\* what the code does: the key is the description captured when the
\* refinement was applied
C8_OwnFailureKeyedByCapturedDescription ==
  OwnCheckFails =>
    /\ Len(last.out.errors) = 1
    /\ last.out.errors[1].key = node.validator.desc

\* what the base of the outermost refinement gave for the last candidate
BaseAccepted == Refining /\ Validate(node.validator.base, last.value, Undefined).res.success
BaseData == Validate(node.validator.base, last.value, Undefined).res.data

\* C9: maxSizeMB(L) over a base that accepted a file of s bytes fails iff
\* s > L * 1024 * 1024.
C9_SizeBoundary ==
  (Called /\ node.validator.op = "maxSizeMB" /\ BaseAccepted /\ IsFile(BaseData)) =>
    (last.out.success <=> BaseData.size <= node.validator.maxMB * 1024 * 1024)

C9_Witness ==
  /\ Called /\ node.validator.op = "maxSizeMB" /\ node.validator.base.op = "file"
  /\ node.validator.maxMB = 5
  /\ IsFile(last.value) /\ last.value.size = 5 * 1024 * 1024
  /\ last.out.success

C9_WitnessReject ==
  /\ Called /\ node.validator.op = "maxSizeMB" /\ node.validator.base.op = "file"
  /\ node.validator.maxMB = 5
  /\ IsFile(last.value) /\ last.value.size = 5 * 1024 * 1024 + 1
  /\ ~last.out.success

----------------------------------------------------------------------------
(* array(): the evaluation of a sequence schema, one step per suspension   *)
(* point.  arr holds the locals of the validator closure: the loop index   *)
(* i, the errors and result under construction, and the elements of the    *)
(* current batch whose callback has not run yet (pending).                 *)

RECURSIVE Suspends(_, _, _)
\* whether a validator closure waits for an external collaborator on value
Suspends(fn, value, parent) ==
  CASE fn.op \in RefinementOps ->
         LET r == Validate(fn.base, value, ParentForBase(fn, parent))
         IN Suspends(fn.base, value, ParentForBase(fn, parent)) \/ (r.res.success /\ External(fn, r.res.data))
    [] fn.op = "optional" -> value # Undefined /\ Suspends(fn.base, value, Undefined)
    [] fn.op = "when" -> Suspends(Build(IF Branch(fn, parent) = "then" THEN fn.then ELSE fn.otherwise, fn.self).validator, value, parent)
    [] OTHER -> FALSE

\* a slice that runs to the end of the array
BatchToEnd(i, concurrency, length) == {k \in 0..(length - 1) : i <= k}

\* value.slice(i, i + concurrency), as 0-based indices
Batch(i, concurrency, length) == {k \in 0..(length - 1) : i <= k /\ k < i + concurrency}

\* batch.map(...): itemSchema.safeParse is called on every element of the
\* batch; started counts the calls per element, settled the callbacks run
Started(started, batch) == [k \in DOMAIN started |-> IF k \in batch THEN started[k] + 1 ELSE started[k]]

ElemValues == {Str("a"), Num(123), Png1MB, Pdf5MB, Png1MBPlus}
ArrayCandidates == {Num(123)} \cup {Arr(items) : items \in UNION {[1..n -> ElemValues] : n \in 0..MaxLen}}
ItemSchemas == {string, aiValidate(file, "okFlag", NoMsg)}

\* a caller awaits node.safeParse(value) on a sequence schema: the closure
\* runs up to its first await
ArrayCall ==
  /\ arr.pc = "idle"
  /\ \E value \in ArrayCandidates :
       IF ~IsArray(value)
       THEN arr' = [pc |-> "done", value |-> value, out |-> Finalize(node, Fail(<<Entry("value", "Expected an array")>>))]
       ELSE arr' = [pc |-> "batch", value |-> value, i |-> 0, result |-> <<>>, errors |-> <<>>,
                    pending |-> Batch(0, Concurrency(node.validator.batchConcurrency), Len(value.items)),
                    started |-> Started([k \in 0..(Len(value.items) - 1) |-> 0], Batch(0, Concurrency(node.validator.batchConcurrency), Len(value.items))),
                    settled |-> [k \in 0..(Len(value.items) - 1) |-> 0]]
  /\ UNCHANGED <<base, node, caches, last, count, obj, heap, ev, hook, inflight>>

\* the callbacks of elements that do not wait for an external collaborator
\* run first-in first-out; an external check takes any time
MayComplete(fn, items, pending, k) ==
  k \in pending /\ \A j \in pending : j < k => Suspends(fn, items[j + 1], Undefined)

\* the callback of one element of the batch runs after its safeParse
ArrayItemDone ==
  /\ arr.pc = "batch"
  /\ \E k \in arr.pending :
       /\ MayComplete(StageFn(node.validator.itemSchema, "default"), arr.value.items, arr.pending, k)
       /\ LET itemResult == SafeParseMiss(node.validator.itemSchema, arr.value.items[k + 1], Undefined, "default").res
              acc == ArrayAbsorb([result |-> arr.result, errors |-> arr.errors], k, itemResult)
          IN arr' = [arr EXCEPT !.result = acc.result, !.errors = acc.errors, !.pending = arr.pending \ {k},
                                !.settled[k] = @ + 1]
  /\ UNCHANGED <<base, node, caches, last, count, obj, heap, ev, hook, inflight>>

\* Promise.all of the batch has resolved: the loop goes on or the closure
\* returns
ArrayBatchDone ==
  /\ arr.pc = "batch"
  /\ arr.pending = {}
  /\ LET next == arr.i + Concurrency(node.validator.batchConcurrency)
     IN IF next < Len(arr.value.items)
        THEN arr' = [arr EXCEPT !.i = next, !.pending = Batch(next, Concurrency(node.validator.batchConcurrency), Len(arr.value.items)),
                                !.started = Started(@, Batch(next, Concurrency(node.validator.batchConcurrency), Len(arr.value.items)))]
        ELSE arr' = [pc |-> "done", value |-> arr.value, started |-> arr.started, settled |-> arr.settled,
                     out |-> Finalize(node, ArrayReturn([result |-> arr.result, errors |-> arr.errors]))]
  /\ UNCHANGED <<base, node, caches, last, count, obj, heap, ev, hook, inflight>>

InitArray ==
  /\ node \in {array(item, b) : item \in ItemSchemas, b \in {0, 1, 2}}
  /\ base = node
  /\ caches = <<>>
  /\ last = NoCall
  /\ count = 0
  /\ arr = Idle
  /\ obj = [pc |-> "idle", formRule |-> "none"]
  /\ Unused

NextArray ==
  \/ ArrayCall
  \/ ArrayItemDone
  \/ ArrayBatchDone

SpecArray == InitArray /\ [][NextArray]_vars

----------------------------------------------------------------------------
(* Claims about array() (SpecArray) *)

ArrayDone == arr.pc = "done" /\ IsArray(arr.value)

\* what the item schema gives for the element at 0-based index k
ItemOutcome(k) == SafeParseMiss(node.validator.itemSchema, arr.value.items[k + 1], Undefined, "default").res
Failing == {k \in 0..(Len(arr.value.items) - 1) : ~ItemOutcome(k).success}

\* C4: if any element fails, the sequence fails, with exactly the entries
\* "i.k" of every failing element i and each of its error keys k, whichever
\* batch it is in, and with no success value.
C4_IndexPrefixedErrors ==
  (ArrayDone /\ Failing # {}) =>
    /\ ~arr.out.success
    /\ arr.out.data = Undefined
    /\ Entries(arr.out.errors) = UNION {{Entry(ToString(k) \o "." \o e.key, e.msg) : e \in Entries(ItemOutcome(k).errors)} : k \in Failing}
    /\ Len(arr.out.errors) = Cardinality(Entries(arr.out.errors))

\* [valid, 123, valid] against string(), and a failure in a later batch
C4_Witness ==
  /\ ArrayDone
  /\ node.validator.batchConcurrency = 1
  /\ arr.value = Arr(<<Str("a"), Num(123), Num(123)>>)
  /\ ~arr.out.success
  /\ arr.out.errors = <<Entry("1.value", "Expected a string"), Entry("2.value", "Expected a string")>>

\* C5: when every element validates, the success value holds the validated
\* elements in the candidate's order.
C5_ResultKeepsOrder ==
  (ArrayDone /\ Failing = {}) =>
    /\ arr.out.success
    /\ arr.out.data.kind = "array"
    /\ Len(arr.out.data.items) = Len(arr.value.items)
    /\ \A k \in 0..(Len(arr.value.items) - 1) : arr.out.data.items[k + 1] = ItemOutcome(k).data

\* the part of C5 the code keeps: the same elements, in some order
C5_ResultKeepsElements ==
  (ArrayDone /\ Failing = {}) =>
    /\ arr.out.success
    /\ Len(arr.out.data.items) = Len(arr.value.items)
    /\ \A k \in 0..(Len(arr.value.items) - 1) : \E j \in 1..Len(arr.out.data.items) : arr.out.data.items[j] = ItemOutcome(k).data

----------------------------------------------------------------------------
(* object(): the evaluation of a record schema, one step per suspension    *)
(* point.  obj holds instance.formRule and the locals of the validator     *)
(* closure: the errors and result under construction and the fields whose  *)
(* callback has not run yet (pending, as positions in the shape).          *)

AvatarSchema == aiValidate(describe(file, "avatar"), "okFlag", NoMsg)
NameAvatarShape == <<<<"name", string>>, <<"avatar", AvatarSchema>>>>
Shapes == {NameAgeShape, NameAvatarShape}

FieldValues == {Str("5"), Num(123), Png1MB, Png1MBPlus, Undefined}

\* the candidates: every record over the keys of the shape, and a number
ObjectCandidates(shape) ==
  {Num(123)} \cup {Obj([k \in 1..Len(shape) |-> <<shape[k][1], vals[k]>>]) : vals \in [1..Len(shape) -> FieldValues]}

\* formRule(schemaInstance, rule): schemaInstance.formRule = rule
FormRule ==
  /\ obj.pc = "idle"
  /\ obj.formRule = "none"
  /\ \E rule \in {"match"} : obj' = [obj EXCEPT !.formRule = rule]
  /\ UNCHANGED <<base, node, caches, last, count, arr, heap, ev, hook, inflight>>

\* a caller awaits node.safeParse(value) on a record schema: the closure
\* starts every field and awaits them all
ObjectCall ==
  /\ obj.pc = "idle"
  /\ \E value \in ObjectCandidates(node.validator.shape) :
       IF ~TypeofObject(value)
       THEN obj' = [pc |-> "done", formRule |-> obj.formRule, value |-> value, ruleRan |-> FALSE,
                    out |-> Finalize(node, Fail(<<Entry("value", "Expected an object")>>))]
       ELSE obj' = [pc |-> "fields", formRule |-> obj.formRule, value |-> value, result |-> <<>>, errors |-> <<>>,
                    pending |-> 1..Len(node.validator.shape), ruleRan |-> FALSE]
  /\ UNCHANGED <<base, node, caches, last, count, arr, heap, ev, hook, inflight>>

\* a field's callback runs once its safeParse is done; fields that do not
\* wait for an external collaborator complete in the order of the shape
FieldMayComplete(shape, value, pending, k) ==
  k \in pending /\ \A j \in pending : j < k => Suspends(StageFn(shape[j][2], "default"), Get(value, shape[j][1]), value)

ObjectFieldDone ==
  /\ obj.pc = "fields"
  /\ \E k \in obj.pending :
       /\ FieldMayComplete(node.validator.shape, obj.value, obj.pending, k)
       /\ LET key == node.validator.shape[k][1]
              fieldResult == SafeParseMiss(node.validator.shape[k][2], Get(obj.value, key), obj.value, "default").res
              acc == ObjectAbsorb([result |-> obj.result, errors |-> obj.errors], key, fieldResult)
          IN obj' = [obj EXCEPT !.result = acc.result, !.errors = acc.errors, !.pending = obj.pending \ {k}]
  /\ UNCHANGED <<base, node, caches, last, count, arr, heap, ev, hook, inflight>>

\* Promise.all of the fields has resolved: the cross-field rule, then the
\* return
ObjectFinish ==
  /\ obj.pc = "fields"
  /\ obj.pending = {}
  /\ LET acc == [result |-> obj.result, errors |-> obj.errors]
     IN obj' = [pc |-> "done", formRule |-> obj.formRule, value |-> obj.value,
                ruleRan |-> RuleRuns(acc, obj.formRule), ruleArg |-> Obj(obj.result),
                out |-> Finalize(node, ObjectReturn(ObjectRule(acc, obj.formRule)))]
  /\ UNCHANGED <<base, node, caches, last, count, arr, heap, ev, hook, inflight>>

InitObject ==
  /\ node \in {object(shape) : shape \in Shapes}
  /\ base = node
  /\ caches = <<>>
  /\ last = NoCall
  /\ count = 0
  /\ arr = Idle
  /\ obj = [pc |-> "idle", formRule |-> "none"]
  /\ Unused

NextObject ==
  \/ FormRule
  \/ ObjectCall
  \/ ObjectFieldDone
  \/ ObjectFinish

SpecObject == InitObject /\ [][NextObject]_vars

----------------------------------------------------------------------------
(* Claims about object() (SpecObject) *)

ObjectDone == obj.pc = "done" /\ TypeofObject(obj.value)

FieldsOf == 1..Len(node.validator.shape)
\* what the field's schema gives for the candidate's field, alone
FieldOutcome(k) == SafeParseMiss(node.validator.shape[k][2], Get(obj.value, node.validator.shape[k][1]), obj.value, "default").res
FailingFields == {k \in FieldsOf : ~FieldOutcome(k).success}

\* C3: on a partial failure the record's error map is exactly the union of
\* the failing fields' own entries, with an entry for each failing field
\* (two failing fields never share a key); {name: string(), age: string()}
\* on {name: 123, age: "5"} yields exactly {name: "Expected a string"}.
C3_UnionOfFieldErrors ==
  (ObjectDone /\ FailingFields # {}) =>
    /\ ~obj.out.success
    /\ Entries(obj.out.errors) = UNION {Entries(FieldOutcome(k).errors) : k \in FailingFields}
    /\ Cardinality(Keys(obj.out.errors)) >= Cardinality(FailingFields)
    /\ (node.validator.shape = NameAgeShape /\ obj.value = Obj(<<<<"name", Num(123)>>, <<"age", Str("5")>>>>)
          => obj.out.errors = <<Entry("name", "Expected a string")>>)

\* what the code does: every entry of the map is an entry of a failing
\* field, under the field schema's own key
C3_EntriesComeFromFields ==
  (ObjectDone /\ FailingFields # {}) =>
    /\ ~obj.out.success
    /\ Entries(obj.out.errors) \subseteq UNION {Entries(FieldOutcome(k).errors) : k \in FailingFields}
    /\ Keys(obj.out.errors) = UNION {Keys(FieldOutcome(k).errors) : k \in FailingFields}

\* C10: the cross-field rule runs only once every field is validated and
\* every one succeeded, on the assembled result; its message becomes the
\* whole error map {"form": message}; when a field failed it is not run and
\* there is no "form" entry.
C10_FormRuleAfterFields ==
  /\ (obj.pc = "fields" => ~obj.ruleRan)
  /\ (ObjectDone /\ obj.formRule # "none") =>
       /\ obj.ruleRan <=> FailingFields = {}
       /\ obj.ruleRan =>
            /\ \A k \in FieldsOf : Get(obj.ruleArg, node.validator.shape[k][1]) = FieldOutcome(k).data
            /\ FormRuleFn(obj.formRule, obj.ruleArg) # "" =>
                 /\ ~obj.out.success
                 /\ obj.out.errors = <<Entry("form", FormRuleFn(obj.formRule, obj.ruleArg))>>
            /\ FormRuleFn(obj.formRule, obj.ruleArg) = "" => obj.out.success
       /\ FailingFields # {} => ~obj.ruleRan /\ "form" \notin Keys(obj.out.errors)

C10_Witness ==
  /\ ObjectDone /\ obj.formRule = "match"
  /\ obj.ruleRan
  /\ ~obj.out.success
  /\ obj.out.errors = <<Entry("form", "Fields must match")>>

C10_WitnessFieldFailed ==
  /\ ObjectDone /\ obj.formRule = "match"
  /\ FailingFields # {}
  /\ ~obj.ruleRan

----------------------------------------------------------------------------
(* Schema objects with identity: heap holds the ZetSchema objects created  *)
(* so far (an object is its index), ev the last method call: the method,   *)
(* its receiver, the object it returned and the heap before the call.      *)

NoEvent == [m |-> "none"]

HeapBuilders == {ThenBuilder, OtherwiseBuilder}

\* a method that returns `new ZetSchema(...)`
Allocate(m, this, derived) ==
  /\ Len(heap) < MaxNodes
  /\ heap' = Append(heap, derived)
  /\ ev' = [m |-> m, this |-> this, ret |-> Len(heap) + 1, before |-> heap]

HeapDescribe ==
  /\ \E this \in 1..Len(heap), d \in {"avatar"} : Allocate("describe", this, describe(heap[this], d))
  /\ UNCHANGED <<base, node, caches, last, count, arr, obj, hook, inflight>>

HeapSetTransform ==
  /\ \E this \in 1..Len(heap), fn \in {"bang"} : Allocate("setTransform", this, setTransform(heap[this], fn))
  /\ UNCHANGED <<base, node, caches, last, count, arr, obj, hook, inflight>>

HeapOptional ==
  /\ \E this \in 1..Len(heap) : Allocate("optional", this, optional(heap[this]))
  /\ UNCHANGED <<base, node, caches, last, count, arr, obj, hook, inflight>>

HeapExtend ==
  /\ \E this \in 1..Len(heap) : Allocate("extend", this, extend(heap[this]))
  /\ UNCHANGED <<base, node, caches, last, count, arr, obj, hook, inflight>>

HeapSetCache ==
  /\ Len(caches) < MaxCaches
  /\ \E this \in 1..Len(heap) : Allocate("setCache", this, setCache(heap[this], Len(caches) + 1))
  /\ caches' = Append(caches, <<>>)
  /\ UNCHANGED <<base, node, last, count, arr, obj, hook, inflight>>

HeapWhen ==
  /\ \E this \in 1..Len(heap) : Allocate("when", this, when(heap[this], "isPremium", ThenBuilder, OtherwiseBuilder))
  /\ UNCHANGED <<base, node, caches, last, count, arr, obj, hook, inflight>>

\* the refinement methods, each with one set of arguments
Refinements(this) ==
  { type(this, <<"image/jpeg", "image/png">>, NoMsg),
    maxSizeMB(this, 5, NoMsg),
    dimensions(this, [minWidth |-> 100, maxWidth |-> 0, minHeight |-> 100, maxHeight |-> 0], NoMsg),
    maxDuration(this, 60, NoMsg),
    namePattern(this, "\\.png$", NoMsg),
    extension(this, <<"PNG", "pdf">>, NoMsg),
    compress(this, 1, NoMsg),
    serverValidate(this, "okFlag", NoMsg),
    metadata(this, "wide", NoMsg),
    query(this, "okFlag", "Rejected"),
    aiValidate(this, "okFlag", NoMsg) }

HeapRefine ==
  /\ \E this \in 1..Len(heap) : \E derived \in Refinements(heap[this]) : Allocate(derived.validator.op, this, derived)
  /\ UNCHANGED <<base, node, caches, last, count, arr, obj, hook, inflight>>

\* the stage entries that are not what the constructor left
Registered ==
  {p \in (1..Len(heap)) \X StageNames : heap[p[1]].stages[p[2]] # (IF p[2] = "default" THEN heap[p[1]].validator ELSE NoFn)}

\* stage(name, fn): assigns this.stages[name] and returns this
HeapStage ==
  /\ Cardinality(Registered) < MaxStages
  /\ \E this \in 1..Len(heap), name \in StageNames, fn \in HeapBuilders :
       /\ heap' = [heap EXCEPT ![this] = stage(heap[this], name, fn)]
       /\ ev' = [m |-> "stage", this |-> this, ret |-> this, before |-> heap, name |-> name]
  /\ UNCHANGED <<base, node, caches, last, count, arr, obj, hook, inflight>>

InitHeap ==
  /\ heap \in {<<string>>, <<file>>}
  /\ ev = NoEvent
  /\ base = string
  /\ node = string
  /\ caches = <<>>
  /\ last = NoCall
  /\ count = 0
  /\ arr = Idle
  /\ obj = [pc |-> "idle", formRule |-> "none"]
  /\ hook = <<>>
  /\ inflight = <<>>

NextHeap ==
  \/ HeapDescribe
  \/ HeapSetTransform
  \/ HeapOptional
  \/ HeapExtend
  \/ HeapSetCache
  \/ HeapWhen
  \/ HeapRefine
  \/ HeapStage

SpecHeap == InitHeap /\ [][NextHeap]_vars

----------------------------------------------------------------------------
(* Claims about the derivation methods (SpecHeap) *)

Invoked == ev.m # "none"

\* the objects that existed before the call are what they were
OthersUntouched == \A i \in 1..Len(ev.before) : i # ev.this => heap[i] = ev.before[i]

\* a new object was returned and the receiver is what it was
NewNodeReturned ==
  /\ ev.ret = Len(ev.before) + 1
  /\ ev.ret # ev.this
  /\ Len(heap) = Len(ev.before) + 1
  /\ heap[ev.this] = ev.before[ev.this]
  /\ OthersUntouched

\* the receiver was returned, no object was created, and the receiver
\* differs from what it was in its stages table only, and there in the
\* entry of the name only
ReceiverReturned ==
  /\ ev.ret = ev.this
  /\ Len(heap) = Len(ev.before)
  /\ OthersUntouched
  /\ heap[ev.this].validator = ev.before[ev.this].validator
  /\ heap[ev.this].description = ev.before[ev.this].description
  /\ heap[ev.this].transformFn = ev.before[ev.this].transformFn
  /\ heap[ev.this].cacheMap = ev.before[ev.this].cacheMap
  /\ \A name \in DOMAIN heap[ev.this].stages : name # ev.name => heap[ev.this].stages[name] = ev.before[ev.this].stages[name]

\* C11: every derivation method returns a new schema and leaves its
\* receiver as it was; stage(name, builder) returns the receiver and changes
\* only its stages[name], its "default" stage entry staying what it was.
C11_DerivationsLeaveReceiver ==
  Invoked =>
    IF ev.m = "stage"
    THEN ReceiverReturned /\ heap[ev.this].stages["default"] = ev.before[ev.this].stages["default"]
    ELSE NewNodeReturned

\* what the code keeps: stage(name, builder) changes stages[name] only,
\* "default" included when it is the name
C11_StageChangesNamedEntryOnly ==
  Invoked => IF ev.m = "stage" THEN ReceiverReturned ELSE NewNodeReturned

\* stage("default", builder) on a schema: the entry the constructor seeded
\* is replaced
C11_DefaultStageReplaced ==
  /\ Invoked /\ ev.m = "stage" /\ ev.name = "default"
  /\ heap[ev.this].stages["default"] # heap[ev.this].validator

----------------------------------------------------------------------------
(* parse(): the repository holds two copies of ZetSchema.ts that differ in *)
(* the synchronous failure path of parse; a build contains either.         *)

Sources == {"part_002", "part_003"}

Returned(v) == [returned |-> TRUE, value |-> v]
Thrown(name, message) == [returned |-> FALSE, name |-> name, message |-> message]

\* Object.values(errors)[0]
FirstValue(errors) == IF Len(errors) = 0 THEN "" ELSE errors[1].msg

RECURSIVE IsPromise(_, _, _)
\* result instanceof Promise: the closures written as async functions, and
\* the closures that hand on what such a closure returned
IsPromise(fn, value, parent) ==
  CASE fn.op \in {"string", "file"} -> FALSE
    [] fn.op = "optional" -> value # Undefined /\ IsPromise(fn.base, value, Undefined)
    [] fn.op = "when" -> IsPromise(Build(IF Branch(fn, parent) = "then" THEN fn.then ELSE fn.otherwise, fn.self).validator, value, parent)
    [] OTHER -> TRUE

\* the two paths of parse once the validator's result is there; in part_003
\* the synchronous path throws with `res`, a name that is not bound there
ParseSettle(this, res, promise, src) ==
  IF res.success
  THEN Returned(IF this.transformFn # NoTransform THEN ApplyTransform(this.transformFn, res.data) ELSE res.data)
  ELSE IF ~promise /\ src = "part_003"
       THEN Thrown("ReferenceError", "res is not defined")
       ELSE Thrown("Error", FirstValue(res.errors))

\* parse(value, parent, stage), awaited when it returns a Promise
Parse(this, value, parent, stageName, src) ==
  ParseSettle(this, Validate(StageFn(this, stageName), value, parent).res, IsPromise(StageFn(this, stageName), value, parent), src)

\* stage(name, fn) on the schema under construction; it returns the receiver
Stage ==
  /\ Building
  /\ \E name \in StageNames, fn \in {ThenBuilder} :
       /\ node.stages[name] = (IF name = "default" THEN node.validator ELSE NoFn)
       /\ node' = stage(node, name, fn)
       /\ base' = stage(node, name, fn)
  /\ UNCHANGED <<caches, last, count, arr, obj, heap, ev, hook, inflight>>

\* a caller awaits node.parse(value, parent, stage)
ParseCall ==
  /\ Building
  /\ \E value \in Candidates, parent \in {Undefined, Premium}, stageName \in StageNames, src \in Sources :
       last' = [n |-> 1, value |-> value, parent |-> parent, stage |-> stageName, src |-> src,
                promise |-> IsPromise(StageFn(node, stageName), value, parent),
                parsed |-> Parse(node, value, parent, stageName, src)]
  /\ UNCHANGED <<base, node, caches, count, arr, obj, heap, ev, hook, inflight>>

NextParse ==
  \/ SetTransform
  \/ When
  \/ MaxSizeMB
  \/ Stage
  \/ ParseCall

SpecParse == Init /\ [][NextParse]_vars

----------------------------------------------------------------------------
(* Claims about parse (SpecParse) *)

\* what safeParse returns for the arguments of the parse call
SafeParsed == SafeParseMiss(node, last.value, last.parent, last.stage).res

ParseAgrees ==
  /\ SafeParsed.success => last.parsed = Returned(SafeParsed.data)
  /\ ~SafeParsed.success => last.parsed = Thrown("Error", SafeParsed.errors[1].msg)

\* C12: on a schema without a cache parse and safeParse agree: parse returns
\* the data safeParse succeeds with, and raises an Error with the first
\* message of the error map safeParse fails with, whether the validator
\* returns a Promise or not.
C12_ParseAgreesWithSafeParse == Called => ParseAgrees

\* what the code keeps: they agree but for a failure of a validator that
\* returns no Promise under part_003
C12_ParseAgreesButSyncFailure ==
  Called => (ParseAgrees \/ (last.src = "part_003" /\ ~last.promise /\ ~SafeParsed.success))

\* string().parse(123) under part_003
C12_SyncFailureThrowsReferenceError ==
  /\ Called /\ node = string /\ last.value = Num(123)
  /\ last.parsed = Thrown("ReferenceError", "res is not defined")

----------------------------------------------------------------------------
(* optional(): a schema, optional() laid over it, one evaluation           *)

Optional == CanWrap /\ Derive(optional(node))

OptionalCandidates == Candidates \cup {Undefined}

\* one safeParse(value, parent) on the finished schema
EvaluateWithParent == Building /\ SafeParseOf(OptionalCandidates, Parents, {"default"})

NextOptional ==
  \/ SetTransform
  \/ When
  \/ MaxSizeMB
  \/ Optional
  \/ EvaluateWithParent

SpecOptional == Init /\ [][NextOptional]_vars

----------------------------------------------------------------------------
(* Claims about optional() (SpecOptional) *)

\* node is base.optional()
IsOptionalOfBase == node = optional(base)

\* C13: o = n.optional() evaluated on undefined succeeds carrying undefined,
\* whatever transform n has; evaluated on any other candidate with any
\* parent context it gives what n gives for that candidate and parent.
C13_OptionalDelegates ==
  (Called /\ IsOptionalOfBase) =>
    /\ last.value = Undefined => last.out = Ok(Undefined)
    /\ last.value # Undefined => last.out = SafeParseMiss(base, last.value, last.parent, last.stage).res

\* what the code does: the transform is applied to the undefined it passes
\* through, and n's validator is called without the parent context
C13_OptionalDropsParent ==
  (Called /\ IsOptionalOfBase) =>
    /\ last.value = Undefined => last.out = Finalize(node, Ok(Undefined))
    /\ last.value # Undefined => last.out = SafeParseMiss(base, last.value, Undefined, last.stage).res

\* string().setTransform(v => v + "!").optional().safeParse(undefined)
C13_TransformedUndefined ==
  /\ Called /\ IsOptionalOfBase /\ last.value = Undefined
  /\ last.out = Ok(Str("undefined!"))

\* file().when(...).optional() with a premium parent takes the other branch
C13_ParentNotPassed ==
  /\ Called /\ IsOptionalOfBase /\ base.validator.op = "when"
  /\ last.parent = Premium
  /\ last.ran = <<"otherwise", "type">>

----------------------------------------------------------------------------
(* useZetForm: validate(data) on a schema with serverValidate refinements. *)
(* hook holds the hook's state (uploadProgress, errors, isValidating), the *)
(* options that reached the refinement closures, the fields whose external *)
(* check is running (checks) and the progress values the checks reported.  *)

NoOptions == [onProgress |-> "absent"]

\* { onProgress: (field, progress) => setUploadProgress(...) }
HookOptions == [onProgress |-> "setUploadProgress"]

\* safeParse(value, parent, stage) calls this.stages[stage](value, parent):
\* of the arguments it was called with, the first two go to the validator
ValidatorArguments(callArguments) == <<callArguments[1], callArguments[2]>>

\* the third parameter of the serverValidate closure, `= {}` when absent
ClosureOptions(validatorArguments) ==
  IF Len(validatorArguments) >= 3 THEN validatorArguments[3] ELSE NoOptions

\* onProgress?.(this.description, progress), with the hook's callback
\* setUploadProgress((prev) => ({ ...prev, [field]: progress }))
OnProgress(options, uploadProgress, field, progress) ==
  IF options.onProgress = "absent" THEN uploadProgress ELSE SetProp(uploadProgress, field, progress)

RECURSIVE ServerFields(_, _, _)
\* the descriptions of the serverValidate closures whose check is called
\* when the validator fn evaluates value
ServerFields(fn, value, parent) ==
  CASE fn.op \in RefinementOps ->
         LET r == Validate(fn.base, value, ParentForBase(fn, parent))
         IN ServerFields(fn.base, value, ParentForBase(fn, parent))
              \cup (IF fn.op = "serverValidate" /\ r.res.success /\ IsFile(r.res.data) THEN {fn.desc} ELSE {})
    [] fn.op = "optional" -> IF value = Undefined THEN {} ELSE ServerFields(fn.base, value, Undefined)
    [] fn.op = "when" -> ServerFields(Build(IF Branch(fn, parent) = "then" THEN fn.then ELSE fn.otherwise, fn.self).validator, value, parent)
    [] fn.op = "array" ->
         IF ~IsArray(value) THEN {}
         ELSE UNION {ServerFields(StageFn(fn.itemSchema, "default"), value.items[i], Undefined) : i \in 1..Len(value.items)}
    [] fn.op = "object" ->
         IF ~TypeofObject(value) THEN {}
         ELSE UNION {ServerFields(StageFn(fn.shape[k][2], "default"), Get(value, fn.shape[k][1]), value) : k \in 1..Len(fn.shape)}
    [] OTHER -> {}

ServerSchema(description) == serverValidate(describe(file, description), "okFlag", NoMsg)
AvatarDocShape == <<<<"avatar", ServerSchema("avatar")>>, <<"doc", ServerSchema("doc")>>>>

HookSchemas == {ServerSchema("avatar"), object(AvatarDocShape), array(ServerSchema("avatar"), 0)}

HookFiles == {Png1MB, Png1MBPlus}

\* the form values validate is called with
HookCandidates(schema) ==
  CASE schema.validator.op = "object" -> {Obj(<<<<"avatar", a>>, <<"doc", d>>>>) : a \in HookFiles \cup {Str("a")}, d \in HookFiles}
    [] schema.validator.op = "array" -> {Arr(<<a>>) : a \in HookFiles} \cup {Arr(<<>>)}
    [] OTHER -> HookFiles \cup {Str("a")}

ProgressValues == {50, 100}

\* validate(data): up to the await of schemaInstance.safeParse(data, data,
\* stage, { onProgress })
HookValidate ==
  /\ hook.pc = "idle"
  /\ \E data \in HookCandidates(node) :
       hook' = [pc |-> "validating", data |-> data, isValidating |-> TRUE,
                uploadProgress |-> hook.uploadProgress, errors |-> hook.errors,
                options |-> ClosureOptions(ValidatorArguments(<<data, data, "default", HookOptions>>)),
                checks |-> ServerFields(StageFn(node, "default"), data, data),
                reported |-> <<>>]
  /\ UNCHANGED <<base, node, caches, last, count, arr, obj, heap, ev, inflight>>

\* a running external check calls the onProgress it was given
CheckReports ==
  /\ hook.pc = "validating"
  /\ Len(hook.reported) < MaxReports
  /\ \E field \in hook.checks, progress \in ProgressValues :
       hook' = [hook EXCEPT !.reported = Append(@, <<field, progress>>),
                            !.uploadProgress = OnProgress(hook.options, @, field, progress)]
  /\ UNCHANGED <<base, node, caches, last, count, arr, obj, heap, ev, inflight>>

\* an external check resolves
CheckResolves ==
  /\ hook.pc = "validating"
  /\ \E field \in hook.checks : hook' = [hook EXCEPT !.checks = @ \ {field}]
  /\ UNCHANGED <<base, node, caches, last, count, arr, obj, heap, ev, inflight>>

\* safeParse has resolved: the rest of validate
HookFinish ==
  /\ hook.pc = "validating"
  /\ hook.checks = {}
  /\ LET result == SafeParseMiss(node, hook.data, hook.data, "default").res
     IN hook' = [hook EXCEPT !.pc = "done", !.isValidating = FALSE,
                             !.errors = IF result.success THEN <<>> ELSE result.errors]
  /\ UNCHANGED <<base, node, caches, last, count, arr, obj, heap, ev, inflight>>

InitHook ==
  /\ node \in HookSchemas
  /\ base = node
  /\ caches = <<>>
  /\ last = NoCall
  /\ count = 0
  /\ arr = Idle
  /\ obj = [pc |-> "idle", formRule |-> "none"]
  /\ heap = <<>>
  /\ ev = <<>>
  /\ hook = [pc |-> "idle", isValidating |-> FALSE, uploadProgress |-> <<>>, errors |-> <<>>]
  /\ inflight = <<>>

NextHook ==
  \/ HookValidate
  \/ CheckReports
  \/ CheckResolves
  \/ HookFinish

SpecHook == InitHook /\ [][NextHook]_vars

----------------------------------------------------------------------------
(* Claims about the hook's progress (SpecHook) *)

Validating == hook.pc # "idle"

\* the value the field's check reported last, 0 if it reported none
RECURSIVE LastReported(_, _)
LastReported(reported, field) ==
  IF reported = <<>> THEN 0
  ELSE IF reported[Len(reported)][1] = field THEN reported[Len(reported)][2]
  ELSE LastReported(SubSeq(reported, 1, Len(reported) - 1), field)

ReportedFields == {hook.reported[i][1] : i \in 1..Len(hook.reported)}

\* C14: every progress value an external check of serverValidate reports
\* during validate reaches the hook's callback: uploadProgress holds, under
\* the field's description, the value the check reported last.
C14_ProgressReachesHook ==
  Validating => \A field \in ReportedFields : \E i \in 1..Len(hook.uploadProgress) : hook.uploadProgress[i] = <<field, LastReported(hook.reported, field)>>

\* what the code does: no reported value reaches uploadProgress
C14_ProgressNeverDelivered ==
  Validating => hook.uploadProgress = <<>>

\* the check of a record's field reported twice and validate has returned
C14_ReportsLost ==
  /\ hook.pc = "done"
  /\ node.validator.op = "object"
  /\ Len(hook.reported) = 2
  /\ hook.uploadProgress = <<>>

----------------------------------------------------------------------------
(* object() over a field that is a conditional: {kind, avatar}, the avatar *)
(* schema being file().when(...) alone or under a further derivation       *)

AvatarByPlan == when(file, "isPremium", ThenBuilder, OtherwiseBuilder)

AvatarByPlanSchemas ==
  { AvatarByPlan,
    maxSizeMB(AvatarByPlan, 5, NoMsg),
    type(AvatarByPlan, <<"image/png", "application/pdf">>, NoMsg),
    optional(AvatarByPlan) }

PlanShape(avatarSchema) == <<<<"kind", string>>, <<"avatar", avatarSchema>>>>

PlanCandidates ==
  {Obj(<<<<"kind", k>>, <<"avatar", a>>>>) : k \in {Str("premium"), Str("basic"), Num(123)}, a \in {Png1MB, Png1MBPlus, Pdf5MB, Str("a")}}

\* a caller awaits node.safeParse(value) on the record schema
PlanCall ==
  /\ obj.pc = "idle"
  /\ \E value \in PlanCandidates :
       obj' = [pc |-> "fields", formRule |-> obj.formRule, value |-> value, result |-> <<>>, errors |-> <<>>,
               pending |-> 1..Len(node.validator.shape), ruleRan |-> FALSE]
  /\ UNCHANGED <<base, node, caches, last, count, arr, heap, ev, hook, inflight>>

InitPlan ==
  /\ node \in {object(PlanShape(avatarSchema)) : avatarSchema \in AvatarByPlanSchemas}
  /\ base = node
  /\ caches = <<>>
  /\ last = NoCall
  /\ count = 0
  /\ arr = Idle
  /\ obj = [pc |-> "idle", formRule |-> "none"]
  /\ Unused

NextPlan ==
  \/ PlanCall
  \/ ObjectFieldDone
  \/ ObjectFinish

SpecPlan == InitPlan /\ [][NextPlan]_vars

----------------------------------------------------------------------------
(* Claims about the parent context of a record's fields (SpecPlan) *)

\* the branches taken while the field at position k was evaluated
FieldBranches(k) ==
  LET ran == SafeParseMiss(node.validator.shape[k][2], Get(obj.value, node.validator.shape[k][1]), obj.value, "default").ran
  IN {ran[i] : i \in 1..Len(ran)} \cap {"then", "otherwise"}

\* the branch the predicate selects on the record's candidate
BranchOnRecord == IF Condition("isPremium", obj.value) THEN "then" ELSE "otherwise"

PremiumTooLarge == Obj(<<<<"kind", Str("premium")>>, <<"avatar", Png1MBPlus>>>>)

\* C15: the predicate of a field's when() is evaluated on the record's raw
\* candidate, also when the when() schema is wrapped by a refinement or by
\* optional(): the branch taken is the one the record selects, and a
\* premium record with an avatar over the premium limit fails with the
\* premium branch's message.
C15_ParentReachesPredicate ==
  ObjectDone =>
    /\ \A k \in FieldsOf : FieldBranches(k) \subseteq {BranchOnRecord}
    /\ obj.value = PremiumTooLarge => (~obj.out.success /\ obj.out.errors = <<Entry("value", "premium: too large")>>)

\* what the code keeps: a when() schema that is itself the field sees the
\* record; under a further derivation it sees the empty context
C15_OnlyDirectWhenSeesRecord ==
  ObjectDone =>
    \A k \in FieldsOf :
      FieldBranches(k) \subseteq {IF node.validator.shape[k][2].validator.op = "when" THEN BranchOnRecord ELSE "otherwise"}

\* file().when(...).maxSizeMB(5) as the avatar of a premium record
C15_WrappedWhenTakesOtherwise ==
  /\ ObjectDone
  /\ node.validator.shape[2][2].validator.op = "maxSizeMB"
  /\ obj.value = PremiumTooLarge
  /\ ~obj.out.success
  /\ obj.out.errors = <<Entry("value", "basic: pdf only")>>

----------------------------------------------------------------------------
(* A schema and the schema derived from it (base, node), evaluated in turn *)
(* on one candidate                                                        *)

Extend == Building /\ Derive(extend(node))

\* setCache() on a schema that may have a cache already
SetCacheFresh ==
  /\ Building
  /\ Len(caches) < MaxCaches + 1
  /\ base' = node
  /\ node' = setCache(node, Len(caches) + 1)
  /\ caches' = Append(caches, <<>>)
  /\ UNCHANGED <<last, count, arr, obj, heap, ev, hook, inflight>>

SharedCandidates == {Str("a"), Png1MB, Png1MBPlus}

\* a caller awaits safeParse(value) on the origin or on the derived schema
SafeParseOn ==
  /\ last.n < MaxCalls
  /\ \E who \in {"base", "node"}, value \in NextCandidates(SharedCandidates) :
       LET this == IF who = "base" THEN base ELSE node
           call == SafeParseCall(this, value, Undefined, "default")
       IN /\ last' = [n |-> last.n + 1, on |-> who, value |-> value, parent |-> Undefined, stage |-> "default",
                      out |-> call.res, ran |-> call.ran, hit |-> call.hit,
                      firstOn |-> IF last = NoCall THEN who ELSE last.firstOn,
                      first |-> IF last = NoCall THEN call.res ELSE last.first]
          /\ caches' = CachesAfter(this, CacheKey("default", value), call)
          /\ count' = count + (IF call.hit THEN 0 ELSE 1)
  /\ UNCHANGED <<base, node, arr, obj, heap, ev, hook, inflight>>

NextShared ==
  \/ SetCacheFresh
  \/ Describe
  \/ SetTransform
  \/ Optional
  \/ Extend
  \/ When
  \/ Type
  \/ MaxSizeMB
  \/ Dimensions
  \/ MaxDuration
  \/ NamePattern
  \/ Extension
  \/ Compress
  \/ ServerValidate
  \/ Metadata
  \/ Query
  \/ AiValidate
  \/ SafeParseOn

\* file().setCache()
InitShared ==
  /\ node = setCache(file, 1)
  /\ base = node
  /\ caches = <<<<>>>>
  /\ last = NoCall
  /\ count = 0
  /\ arr = Idle
  /\ obj = [pc |-> "idle", formRule |-> "none"]
  /\ Unused

SpecShared == InitShared /\ [][NextShared]_vars

----------------------------------------------------------------------------
(* Claims about the shared cache (SpecShared) *)

SharesCache == node.cacheMap = base.cacheMap

\* node is base.setCache(): a map of its own, created after the base's
FreshCache == node = setCache(base, node.cacheMap) /\ node.cacheMap > base.cacheMap

\* the second call went to the other schema of the pair
CrossCall == Called /\ last.n = 2 /\ last.on # last.firstOn

\* what the schema the last call went to gives by itself
OwnOutcome == SafeParseMiss(IF last.on = "base" THEN base ELSE node, last.value, Undefined, "default").res

\* C16: a schema derived from a schema with a cache has the very same map,
\* unless it was derived by setCache(), which gives it a new, empty one.
\* With the same map, what one of the two stored for a stage and candidate
\* is what safeParse on the other returns for them, without running its
\* validator; with a map of its own the derived schema runs its validator.
C16_DerivedSharesCache ==
  /\ (base # node /\ base.cacheMap # NoCache) => (SharesCache \/ FreshCache)
  /\ (CrossCall /\ SharesCache /\ Caching) =>
       /\ last.hit
       /\ last.ran = <<>>
       /\ last.out = last.first
       /\ count = 1
       /\ Cardinality(DOMAIN caches[node.cacheMap]) = 1
  /\ (CrossCall /\ ~SharesCache) =>
       /\ ~last.hit
       /\ last.out = OwnOutcome

\* file().setCache() accepted the file; its .maxSizeMB(1) returns the stored
\* success for a file its own validator rejects
C16_Witness ==
  /\ CrossCall /\ SharesCache /\ Caching
  /\ last.on = "node" /\ node.validator.op = "maxSizeMB"
  /\ last.hit /\ last.out.success
  /\ ~OwnOutcome.success

\* the other direction: the origin returns what the derived schema stored
C16_WitnessOrigin ==
  /\ CrossCall /\ SharesCache /\ Caching
  /\ last.on = "base"
  /\ last.hit /\ ~last.out.success
  /\ OwnOutcome.success

\* setCache() on a schema with a cache: the derived schema misses
C16_WitnessFresh ==
  /\ CrossCall /\ FreshCache /\ base.cacheMap # NoCache
  /\ ~last.hit

----------------------------------------------------------------------------
(* Claims about the batches of array() (SpecArray) *)

ArrayRunning == arr.pc \in {"batch", "done"} /\ IsArray(arr.value)

Indices == 0..(Len(arr.value.items) - 1)

\* the elements whose validation has started and whose callback has not run
InFlight == {k \in Indices : arr.started[k] > arr.settled[k]}

BatchSize == Concurrency(node.validator.batchConcurrency)

\* the batch of the element at index k
BatchOf(k) == k \div BatchSize

\* C17: at any time at most b validations are in flight (b the batch size,
\* 4 unless batchConcurrency is given); an element's validation starts only
\* when every element of the batches before its own has completed; no
\* element is validated twice; and when the evaluation completes every
\* element has been validated exactly once and has completed.
C17_BatchesBoundInFlight ==
  ArrayRunning =>
    /\ Cardinality(InFlight) <= BatchSize
    /\ \A k \in Indices : arr.started[k] <= 1 /\ arr.settled[k] <= arr.started[k]
    /\ \A j, k \in Indices : (arr.started[k] > 0 /\ BatchOf(j) < BatchOf(k)) => (arr.started[j] = 1 /\ arr.settled[j] = 1)
    /\ arr.pc = "done" => \A k \in Indices : arr.started[k] = 1 /\ arr.settled[k] = 1
    /\ (arr.pc = "batch" /\ arr.i + BatchSize >= Len(arr.value.items) /\ InFlight = {}) => ENABLED ArrayBatchDone

\* batch size 1: the second element in flight, the first completed, the
\* third not started
C17_Witness ==
  /\ ArrayRunning /\ arr.pc = "batch"
  /\ node.validator.batchConcurrency = 1
  /\ Len(arr.value.items) = 3
  /\ InFlight = {1}
  /\ arr.settled[0] = 1
  /\ arr.started[2] = 0

\* batch size 2: two elements in flight at once
C17_WitnessFullBatch ==
  /\ ArrayRunning /\ arr.pc = "batch"
  /\ node.validator.batchConcurrency = 2
  /\ InFlight = {0, 1}

----------------------------------------------------------------------------
(* Overlapping safeParse calls on one schema with a cache.  inflight holds *)
(* the calls made so far, in the order they were made: a call is pending   *)
(* while the validator's Promise is unresolved, and wrote is the position  *)
(* of its cacheMap.set among the writes (0: none).                         *)

Pending == [pending |-> TRUE]

RaceSchemas ==
  { setCache(file, 1),
    setCache(maxSizeMB(file, 1, NoMsg), 1),
    setCache(aiValidate(file, "okFlag", NoMsg), 1),
    setCache(setTransform(aiValidate(file, "okFlag", NoMsg), "bang"), 1),
    setCache(AvatarByPlan, 1) }

RaceCandidates == {Str("a"), Png1MB, Png1MBPlus}

Writes == Cardinality({i \in 1..Len(inflight) : inflight[i].wrote > 0})

\* safeParse(value, parent) up to its return: the cached Outcome, the
\* Outcome of a synchronous validator (stored), or a Promise
SafeParseStart ==
  /\ Len(inflight) < MaxCalls
  /\ \E value \in (IF inflight = <<>> THEN RaceCandidates ELSE {inflight[1].value}), parent \in Parents :
       LET key == CacheKey("default", value)
       IN IF CacheHit(node, key)
          THEN /\ inflight' = Append(inflight, [value |-> value, parent |-> parent, hit |-> TRUE, state |-> "returned", wrote |-> 0, res |-> caches[node.cacheMap][key]])
               /\ UNCHANGED <<caches, count>>
          ELSE IF IsPromise(StageFn(node, "default"), value, parent)
          THEN /\ inflight' = Append(inflight, [value |-> value, parent |-> parent, hit |-> FALSE, state |-> "pending", wrote |-> 0, res |-> Pending])
               /\ count' = count + 1
               /\ UNCHANGED caches
          ELSE /\ inflight' = Append(inflight, [value |-> value, parent |-> parent, hit |-> FALSE, state |-> "returned", wrote |-> Writes + 1,
                                                res |-> SafeParseMiss(node, value, parent, "default").res])
               /\ caches' = [caches EXCEPT ![node.cacheMap] = (key :> SafeParseMiss(node, value, parent, "default").res) @@ @]
               /\ count' = count + 1
  /\ UNCHANGED <<base, node, last, arr, obj, heap, ev, hook>>

\* Promises whose validator does not wait for an external collaborator
\* resolve in the order the calls were made
MayResolve(i) ==
  /\ inflight[i].state = "pending"
  /\ \A j \in 1..(i - 1) : inflight[j].state = "pending" => Suspends(StageFn(node, "default"), inflight[j].value, inflight[j].parent)

\* the callback of result.then: finalRes is stored and returned
SafeParseResolve ==
  /\ \E i \in 1..Len(inflight) :
       /\ MayResolve(i)
       /\ LET finalRes == SafeParseMiss(node, inflight[i].value, inflight[i].parent, "default").res
          IN /\ inflight' = [inflight EXCEPT ![i].state = "returned", ![i].wrote = Writes + 1, ![i].res = finalRes]
             /\ caches' = [caches EXCEPT ![node.cacheMap] = (CacheKey("default", inflight[i].value) :> finalRes) @@ @]
  /\ UNCHANGED <<base, node, last, count, arr, obj, heap, ev, hook>>

InitRace ==
  /\ node \in RaceSchemas
  /\ base = node
  /\ caches = <<<<>>>>
  /\ last = NoCall
  /\ count = 0
  /\ arr = Idle
  /\ obj = [pc |-> "idle", formRule |-> "none"]
  /\ heap = <<>>
  /\ ev = <<>>
  /\ hook = <<>>
  /\ inflight = <<>>

NextRace ==
  \/ SafeParseStart
  \/ SafeParseResolve

SpecRace == InitRace /\ [][NextRace]_vars

----------------------------------------------------------------------------
(* Claims about overlapping calls (SpecRace) *)

Calls == 1..Len(inflight)

\* two calls that both missed the cache and have both returned
BothMissed(i, j) ==
  /\ i < j
  /\ ~inflight[i].hit /\ ~inflight[j].hit
  /\ inflight[i].state = "returned" /\ inflight[j].state = "returned"

\* the cache holds one entry, the Outcome written last
LastWriteWins ==
  /\ Cardinality(DOMAIN caches[node.cacheMap]) = 1
  /\ \A i \in Calls : inflight[i].wrote = Writes => caches[node.cacheMap][CacheKey("default", inflight[i].value)] = inflight[i].res

\* C18: when two safeParse calls with the same stage and candidate both miss
\* the cache, both invoked the validator and both wrote; the cache holds
\* exactly one entry for the key, the Outcome written last, and the two
\* written Outcomes are equal.
C18_OverlappingWritesEquivalent ==
  \A i, j \in Calls : BothMissed(i, j) =>
    /\ count >= 2
    /\ inflight[i].wrote > 0 /\ inflight[j].wrote > 0 /\ inflight[i].wrote # inflight[j].wrote
    /\ LastWriteWins
    /\ inflight[i].res = inflight[j].res

\* what the code keeps: both write and the last write wins; the Outcomes
\* are equal when the two calls had the same parent context
C18_LastWriteWins ==
  \A i, j \in Calls : BothMissed(i, j) =>
    /\ count >= 2
    /\ inflight[i].wrote > 0 /\ inflight[j].wrote > 0 /\ inflight[i].wrote # inflight[j].wrote
    /\ LastWriteWins
    /\ inflight[i].parent = inflight[j].parent => inflight[i].res = inflight[j].res

\* both calls missed and the call made second wrote first
C18_BothMissed ==
  /\ Len(inflight) = 2
  /\ BothMissed(1, 2)
  /\ inflight[2].wrote = 1 /\ inflight[1].wrote = 2
  /\ inflight[1].res = inflight[2].res

\* the two calls had different parents and wrote different Outcomes
C18_OutcomesDiffer ==
  /\ Len(inflight) = 2
  /\ BothMissed(1, 2)
  /\ node.validator.op = "when"
  /\ inflight[1].res.success /\ ~inflight[2].res.success

====
